---- MODULE Spec2Model ----
(***************************************************************************)
(* LinkedIn profile scraper: the text normaliser (ai_parser.py,            *)
(* html_to_clean_text), the Gemini extraction (ai_parser.py,               *)
(* extract_structured_data*, parse_profile) and the batch pipeline         *)
(* (scraper.py, navigate_to_profile, extract_profile_data,                 *)
(* scrape_multiple_profiles).                                              *)
(*                                                                         *)
(* Three specifications share the module:                                  *)
(*   SpecNorm     html_to_clean_text applied to a bounded set of pages     *)
(*   SpecExtract  extract_structured_data applied to a bounded set of LLM  *)
(*                outcomes                                                 *)
(*   SpecRepair   the JSON repair applied to a bounded set of JSON texts    *)
(*   SpecScroll   smooth_scroll on a page whose height changes a bounded    *)
(*                number of times                                          *)
(*   SpecApp      the Streamlit session of app.py under the user's clicks   *)
(*   Spec         scrape_multiple_profiles over a bounded URL list, every  *)
(*                external capability (browser, environment, file system,  *)
(*                LLM) answering nondeterministically                      *)
(***************************************************************************)
EXTENDS Integers, Sequences, FiniteSets, TLC

VARIABLES
    \* ---- SpecNorm: one call of html_to_clean_text
    n_pc,          \* "call" | "done"
    n_html,        \* the html_content argument
    n_out,         \* the returned value (PyNone or PyStr)
    \* ---- SpecExtract: one call of extract_structured_data
    x_pc,          \* "call" | "done"
    x_url,         \* the profile_url argument
    x_llm,         \* what the LLM capability answers
    x_out,         \* the returned record
    x_parses,      \* the texts handed to json.loads, in order
    \* ---- SpecRepair: the two repairs applied to one text
    r_pc,          \* "call" | "done"
    r_text,        \* the text before
    r_out,         \* the text after
    \* ---- SpecScroll: one call of smooth_scroll
    s_pc,          \* position of the control flow
    scroll_pass,   \* the passes completed
    last_height,   \* the height the pass in hand scrolls to
    current_position, \* the position scrolled to
    scroll_height, \* document.body.scrollHeight, the page's height
    s_growths,     \* how often the page's height may still change
    s_exc,         \* whether a browser call raised (the handler swallowed it)
    s_calls,       \* the execute_script calls made, in order
    \* ---- SpecApp: st.session_state and the browsers of one UI session
    scraper,       \* st.session_state.scraper: PyNone or a LinkedInScraper
    logged_in,     \* st.session_state.logged_in
    scraped_data,  \* st.session_state.scraped_data: PyNone or a list of records
    browser_opened,\* st.session_state.browser_opened
    ui_action,     \* the button whose handler ran last
    chrome_started,\* how many Chrome instances were started
    chrome_open,   \* the Chrome instances that run
    quits,         \* the drivers quit() was called on, in order
    released,      \* the scraper the last logout closed, as close() left it
    \* ---- Spec: one run of scrape_multiple_profiles
    pc,            \* position of the control flow
    gemini_api_key,\* os.getenv('GEMINI_API_KEY')
    profile_urls,  \* the argument
    progress_callback, \* whether the caller supplied one
    idx,           \* enumerate(profile_urls, 1): index of the URL in hand
    results,       \* the list being built
    returned,      \* the value returned to the caller (PyNone before that)
    escaped,       \* message of the exception that left the call, or NoExc
    cur,           \* locals of the URL in hand (current_url, clean_text, ...)
    raised,        \* per URL: messages of the exceptions raised while processing it
    events         \* per run: the calls made on the external capabilities

nvars == <<n_pc, n_html, n_out>>
xvars == <<x_pc, x_url, x_llm, x_out, x_parses>>
rvars == <<r_pc, r_text, r_out>>
svars == <<s_pc, scroll_pass, last_height, current_position, scroll_height, s_growths,
           s_exc, s_calls>>
avars == <<scraper, logged_in, scraped_data, browser_opened, ui_action, chrome_started,
           chrome_open, quits, released>>
pvars == <<pc, gemini_api_key, profile_urls, progress_callback, idx, results, returned, escaped,
           cur, raised, events>>
vars == <<nvars, xvars, pvars, rvars, svars, avars>>

(***************************************************************************)
(* Python str values whose length matters are kept run-length encoded: a   *)
(* string is a sequence of runs [c, n] (character c repeated n >= 1        *)
(* times), adjacent runs carrying different characters.  The encoding is   *)
(* lossless, so len, slicing, strip, split and join are computed exactly,  *)
(* and the program's own constants (40000, 3000, 100) are used as they are.*)
(***************************************************************************)
Run(c, n) == [c |-> c, n |-> n]

NL == "\n"
Whitespace == {" ", NL}
Digits == {"7"}

RECURSIVE Norm(_)
Norm(s) ==
    IF s = <<>> THEN <<>>
    ELSE LET h == Head(s)
             r == Norm(Tail(s))
         IN  IF h.n = 0 THEN r
             ELSE IF r # <<>> /\ r[1].c = h.c
                  THEN <<Run(h.c, h.n + r[1].n)>> \o Tail(r)
                  ELSE <<h>> \o r

RECURSIVE StrLen(_)
StrLen(s) == IF s = <<>> THEN 0 ELSE Head(s).n + StrLen(Tail(s))

\* s[:k] for k >= 0
RECURSIVE Take(_, _)
Take(s, k) ==
    IF s = <<>> \/ k <= 0 THEN <<>>
    ELSE IF Head(s).n >= k THEN <<Run(Head(s).c, k)>>
    ELSE <<Head(s)>> \o Take(Tail(s), k - Head(s).n)

RECURSIVE LStrip(_)
LStrip(s) == IF s # <<>> /\ Head(s).c \in Whitespace THEN LStrip(Tail(s)) ELSE s

RECURSIVE RStrip(_)
RStrip(s) ==
    IF s # <<>> /\ s[Len(s)].c \in Whitespace
    THEN RStrip(SubSeq(s, 1, Len(s) - 1)) ELSE s

\* str.strip()
Strip(s) == RStrip(LStrip(s))

\* str.split('\n'): k newlines in a row close the line in hand and open k-1 empty ones
RECURSIVE SplitAcc(_, _, _)
SplitAcc(s, line, acc) ==
    IF s = <<>> THEN Append(acc, line)
    ELSE IF Head(s).c = NL
         THEN SplitAcc(Tail(s), <<>>,
                       Append(acc, line) \o [i \in 1..(Head(s).n - 1) |-> <<>>])
         ELSE SplitAcc(Tail(s), Append(line, Head(s)), acc)

SplitLines(s) == SplitAcc(s, <<>>, <<>>)

\* '\n'.join(lines)
RECURSIVE JoinLines(_)
JoinLines(ls) ==
    IF ls = <<>> THEN <<>>
    ELSE IF Len(ls) = 1 THEN ls[1]
    ELSE Norm(ls[1] \o <<Run(NL, 1)>> \o JoinLines(Tail(ls)))


\* str.startswith(c) for a single character c
StartsWith(s, c) == s # <<>> /\ s[1].c = c

\* pat in s, for a pattern (a sequence of characters) whose neighbours all differ:
\* it occurs where its characters meet consecutive runs, the inner ones of length 1
Contains(s, pat) ==
    \E i \in 1..Len(s) :
        /\ i + Len(pat) - 1 <= Len(s)
        /\ \A j \in 1..Len(pat) :
              /\ s[i + j - 1].c = pat[j]
              /\ (1 < j /\ j < Len(pat)) => s[i + j - 1].n = 1

RECURSIVE CountIn(_, _)
CountIn(s, chars) ==
    IF s = <<>> THEN 0
    ELSE (IF Head(s).c \in chars THEN Head(s).n ELSE 0) + CountIn(Tail(s), chars)

\* p is a prefix of s (both canonical)
IsPrefixOf(p, s) ==
    \/ p = <<>>
    \/ /\ Len(p) <= Len(s)
       /\ \A i \in 1..(Len(p) - 1) : p[i] = s[i]
       /\ p[Len(p)].c = s[Len(p)].c
       /\ p[Len(p)].n <= s[Len(p)].n

(***************************************************************************)
(* Python values.                                                          *)
(***************************************************************************)
PyNone == [t |-> "None"]
PyStr(s) == [t |-> "str", s |-> s]

(***************************************************************************)
(* The rendered page.  BeautifulSoup's tree is kept one level deep: a page *)
(* is the sequence of the elements under <body>, each with its tag, its    *)
(* class attribute and its text node; body = FALSE is markup in which the  *)
(* parser finds no <body> (empty markup), and "unparseable" stands for any *)
(* html_content on which BeautifulSoup(...) raises.                        *)
(***************************************************************************)
Elem(tag, cls, text) == [tag |-> tag, cls |-> cls, text |-> text]
Page(body, elems) == [t |-> "html", body |-> body, elems |-> elems]
Unparseable == [t |-> "unparseable"]

\* class attributes in which 'profile' in x.lower() holds
ProfileClasses == {"pv-profile-card", "Profile-Section"}

\* ai_parser.py:56-57  for element in soup(['script','style','noscript']): decompose()
Decompose(elems) ==
    SelectSeq(elems, LAMBDA e : e.tag \notin {"script", "style", "noscript"})

\* ai_parser.py:61-78  the fallback chain: the subtree whose text is taken, as the
\* sequence of its elements; found = FALSE when every selector is None.
\* soup.find(...) is the first of the elements that match
MainContent(page) ==
    LET elems == Decompose(page.elems)
        m == SelectSeq(elems, LAMBDA e : e.tag = "main")
        d == SelectSeq(elems, LAMBDA e : e.tag = "div" /\ e.cls \in ProfileClasses)
        s == SelectSeq(elems, LAMBDA e : e.tag = "section" /\ e.cls \in ProfileClasses)
    IN  IF m # <<>> THEN [found |-> TRUE, elems |-> <<m[1]>>]
        ELSE IF d # <<>> THEN [found |-> TRUE, elems |-> <<d[1]>>]
        ELSE IF s # <<>> THEN [found |-> TRUE, elems |-> <<s[1]>>]
        ELSE IF page.body THEN [found |-> TRUE, elems |-> elems]
        ELSE [found |-> FALSE, elems |-> <<>>]

\* ai_parser.py:81  get_text(separator='\n', strip=True): every text node stripped,
\* the empty ones dropped, the rest joined by newline
GetText(elems) ==
    LET stripped == [i \in 1..Len(elems) |-> Strip(elems[i].text)]
    IN  JoinLines(SelectSeq(stripped, LAMBDA x : x # <<>>))

\* ai_parser.py:97
TooShortMut(line) == StrLen(line) < 2
TooShort(line) == StrLen(line) <= 2

\* ai_parser.py:101
LooksLikeCode(line) ==
    \/ StartsWith(line, "{")
    \/ StartsWith(line, "[")
    \/ Contains(line, <<"u", "r", "n", ":", "l", "i", ":">>)

\* ai_parser.py:105-106  special_char_count > len(line) * 0.3 (no rounding of the
\* product changes the comparison for len <= 40000)
SymbolDense(line) ==
    LET SpecialChars == {"{", "}", "[", "]", "\"", ":", ","}
    IN  CountIn(line, SpecialChars) * 10 > StrLen(line) * 3

\* ai_parser.py:85-109  the line filter
KeepLine(line) ==
    /\ line # <<>>
    /\ ~(\A i \in 1..Len(line) : line[i].c \in Digits)    \* str.isdigit()
    /\ ~TooShort(line)
    /\ ~LooksLikeCode(line)
    /\ ~SymbolDense(line)

CleanLines(text) ==
    LET raw == SplitLines(text)
        stripped == [i \in 1..Len(raw) |-> Strip(raw[i])]
    IN  SelectSeq(stripped, KeepLine)

\* ai_parser.py:114-116
MaxCleanLen == 40000
TruncateCapMut(text) == text
TruncateCap(text) ==
    IF StrLen(text) > MaxCleanLen THEN Take(text, MaxCleanLen) ELSE text

\* The lines that survive the filter, joined (ai_parser.py:81-111); PyNone when an
\* exception is raised before (BeautifulSoup raises; main_content is None)
JoinedLines(html) ==
    IF html.t # "html" THEN PyNone
    ELSE IF ~MainContent(html).found THEN PyNone
    ELSE PyStr(JoinLines(CleanLines(GetText(MainContent(html).elems))))

\* ai_parser.py:47-131  preview_ok: whether writing debug_clean_preview.txt works;
\* every exception ends in "return None"
html_to_clean_text(html, preview_ok) ==
    LET joined == JoinedLines(html)
    IN  IF joined = PyNone THEN PyNone
        ELSE IF ~preview_ok THEN PyNone
        ELSE PyStr(TruncateCap(joined.s))

(***************************************************************************)
(* JSON values as json.loads returns them, and Python dicts: a dict is a   *)
(* function from its keys to values.  json null / None is JNull, and       *)
(* True / False are JBool.                                                 *)
(***************************************************************************)
JNull == [t |-> "null"]
JBool(b) == [t |-> "bool", b |-> b]
JNum(n) == [t |-> "num", n |-> n]
JStr(s) == [t |-> "str", s |-> s]
JList(xs) == [t |-> "list", xs |-> xs]
JObj(d) == [t |-> "obj", d |-> d]

EmptyDict == [k \in {} |-> JNull]

\* d[key] = value
DictSet(d, key, value) ==
    [k \in DOMAIN d \cup {key} |-> IF k = key THEN value ELSE d[k]]

\* d.get(key, default)
DictGet(d, key, default) == IF key \in DOMAIN d THEN d[key] ELSE default

\* bool(v) is False
Falsy(v) ==
    \/ v.t = "null"
    \/ v.t = "bool" /\ ~v.b
    \/ v.t = "num" /\ v.n = 0
    \/ v.t = "str" /\ v.s = ""
    \/ v.t = "list" /\ v.xs = <<>>
    \/ v.t = "obj" /\ DOMAIN v.d = {}

\* len(v) is defined (no TypeError)
HasLen(v) == v.t \in {"str", "list", "obj"}

\* len(v) == 0, for a value with len
LenIsZero(v) ==
    \/ v.t = "str" /\ v.s = ""
    \/ v.t = "list" /\ v.xs = <<>>
    \/ v.t = "obj" /\ DOMAIN v.d = {}

\* v[:50] is defined (no TypeError): str and list values
Sliceable(v) == v.t \in {"str", "list"}

\* ai_parser.py:268, 271, 274  the placeholders
NA == JStr("N/A")
ExperiencePlaceholder ==
    JList(<<JObj([title |-> NA, company |-> NA, duration |-> NA])>>)
EducationPlaceholder ==
    JList(<<JObj([school |-> NA, degree |-> NA, field |-> NA])>>)
SkillsPlaceholder == JList(<<NA>>)

Placeholder(key) ==
    CASE key = "experiences" -> ExperiencePlaceholder
      [] key = "educations" -> EducationPlaceholder
      [] key = "skills" -> SkillsPlaceholder

\* ai_parser.py:267-274  "if not d.get(key) or len(d.get(key, [])) == 0": the test
\* raises TypeError on a truthy value without len (a non-zero number, True)
DefaultRaises(d, key) ==
    LET v == DictGet(d, key, JNull)
    IN  ~Falsy(v) /\ ~HasLen(v)

WithDefaultMut(d, key) == d
WithDefault(d, key) ==
    IF Falsy(DictGet(d, key, JNull)) \/ LenIsZero(DictGet(d, key, JList(<<>>)))
    THEN DictSet(d, key, Placeholder(key)) ELSE d

\* ai_parser.py:262-264
Attach(d, profile_url) ==
    DictSet(DictSet(DictSet(d, "profile_url", JStr(profile_url)),
                    "success", JBool(TRUE)),
            "error", JNull)

\* ai_parser.py:262-285 on the parsed value: a dict, or "TypeError"
\*   262      item assignment on a value that is no dict
\*   267-274  the three defaults, in order
\*   279      d.get('headline', 'N/A')[:50]
PostProcess(value, profile_url) ==
    IF value.t # "obj" THEN [t |-> "TypeError"]
    ELSE LET d0 == Attach(value.d, profile_url)
         IN  IF DefaultRaises(d0, "experiences") THEN [t |-> "TypeError"]
             ELSE LET d1 == WithDefault(d0, "experiences")
                  IN  IF DefaultRaises(d1, "educations") THEN [t |-> "TypeError"]
                      ELSE LET d2 == WithDefault(d1, "educations")
                           IN  IF DefaultRaises(d2, "skills") THEN [t |-> "TypeError"]
                               ELSE LET d3 == WithDefault(d2, "skills")
                                    IN  IF ~Sliceable(DictGet(d3, "headline", NA))
                                        THEN [t |-> "TypeError"]
                                        ELSE [t |-> "dict", d |-> d3]

(***************************************************************************)
(* The response text of the LLM is kept character by character: a text is  *)
(* a sequence of one-character strings.                                    *)
(***************************************************************************)
\* the first k >= i where pat occurs in s, 0 when there is none
RECURSIVE FindFrom(_, _, _)
FindFrom(s, pat, i) ==
    IF i + Len(pat) - 1 > Len(s) THEN 0
    ELSE IF SubSeq(s, i, i + Len(pat) - 1) = pat THEN i
    ELSE FindFrom(s, pat, i + 1)

\* pat in s
HasSub(s, pat) == FindFrom(s, pat, 1) # 0

\* s.split(pat): the pieces between the occurrences of pat, left to right
RECURSIVE SplitOn(_, _)
SplitOn(s, pat) ==
    LET k == FindFrom(s, pat, 1)
    IN  IF k = 0 THEN <<s>>
        ELSE <<SubSeq(s, 1, k - 1)>> \o SplitOn(SubSeq(s, k + Len(pat), Len(s)), pat)

\* s.strip()
RECURSIVE StripText(_)
StripText(s) ==
    IF s # <<>> /\ Head(s) \in Whitespace THEN StripText(Tail(s))
    ELSE IF s # <<>> /\ s[Len(s)] \in Whitespace THEN StripText(SubSeq(s, 1, Len(s) - 1))
    ELSE s

\* s.rindex(c), 0 when c is not in s
RECURSIVE RIndex(_, _)
RIndex(s, c) ==
    IF s = <<>> THEN 0
    ELSE IF s[Len(s)] = c THEN Len(s)
    ELSE RIndex(SubSeq(s, 1, Len(s) - 1), c)

\* the two fence markers, the backquote character written as a word
Fence == LET Backquote == "BACKQUOTE" IN <<Backquote, Backquote, Backquote>>
\* ai_parser.py:236-239  the content of the first fenced block
Unfence(text) ==
    LET FenceJson == Fence \o <<"j", "s", "o", "n">>
    IN  IF HasSub(text, FenceJson)
        THEN StripText(SplitOn(SplitOn(text, FenceJson)[2], Fence)[1])
        ELSE IF HasSub(text, Fence)
        THEN StripText(SplitOn(SplitOn(text, Fence)[2], Fence)[1])
        ELSE text

\* ai_parser.py:242-243  drop what precedes the first {
FromFirstBrace(text) ==
    IF HasSub(text, <<"{">>)
    THEN SubSeq(text, FindFrom(text, <<"{">>, 1), Len(text))
    ELSE text

\* ai_parser.py:246-247  drop what follows the last }
ToLastBrace(text) ==
    IF HasSub(text, <<"}">>) THEN SubSeq(text, 1, RIndex(text, "}")) ELSE text

\* ai_parser.py:200, 234-247  the text handed to json.loads
CleanResponse(response_text) ==
    ToLastBrace(FromFirstBrace(Unfence(StripText(response_text))))

\* ai_parser.py:258  every single quote becomes a double quote
ReplaceQuotes(text) == [i \in 1..Len(text) |-> IF text[i] = "'" THEN "\"" ELSE text[i]]

\* the first position at or after i that holds no whitespace
RECURSIVE SkipWs(_, _)
SkipWs(s, i) == IF i <= Len(s) /\ s[i] \in Whitespace THEN SkipWs(s, i + 1) ELSE i

\* ai_parser.py:259  re.sub(r',(\s*[}\]])', r'\1', text): a comma goes when
\* whitespace (or nothing) and then } or ] follow it
TrailingComma(text, i) ==
    /\ text[i] = ","
    /\ SkipWs(text, i + 1) <= Len(text)
    /\ text[SkipWs(text, i + 1)] \in {"}", "]"}

StripTrailingCommas(text) ==
    LET F[i \in 0..Len(text)] ==
            IF i = 0 THEN <<>>
            ELSE IF TrailingComma(text, i) THEN F[i - 1]
            ELSE Append(F[i - 1], text[i])
    IN  F[Len(text)]

\* ai_parser.py:258-259  the two repairs
Repair(text) == StripTrailingCommas(ReplaceQuotes(text))

(***************************************************************************)
(* json.loads on such a text, for the JSON grammar without escapes,        *)
(* fractions and exponents: objects, arrays, strings (any characters but   *)
(* the double quote, the backslash and control characters), unsigned       *)
(* integers, true, false, null, whitespace between tokens.  A parse gives  *)
(* [ok, v, i]: whether it worked, the value, the position after it.        *)
(***************************************************************************)
DigitChars == {"0", "1", "2", "3", "7"}

ParseFail == [ok |-> FALSE, v |-> JNull, i |-> 0]
ParseOk(v, i) == [ok |-> TRUE, v |-> v, i |-> i]

At(s, i) == IF i >= 1 /\ i <= Len(s) THEN s[i] ELSE ""

\* the characters of a string literal opened at i - 1, up to its closing quote
RECURSIVE ParseChars(_, _, _)
ParseChars(s, i, acc) ==
    IF i > Len(s) \/ s[i] = "\\" \/ s[i] = NL THEN ParseFail
    ELSE IF s[i] = "\"" THEN ParseOk(JStr(acc), i + 1)
    ELSE ParseChars(s, i + 1, acc \o s[i])

RECURSIVE ParseDigits(_, _, _)
ParseDigits(s, i, n) ==
    LET DigitVal(c) ==
            CASE c = "0" -> 0 [] c = "1" -> 1 [] c = "2" -> 2 [] c = "3" -> 3 [] c = "7" -> 7
    IN  IF At(s, i) \in DigitChars THEN ParseDigits(s, i + 1, 10 * n + DigitVal(s[i]))
        ELSE ParseOk(JNum(n), i)

ParseWord(s, i, word, v) ==
    IF i + Len(word) - 1 <= Len(s) /\ SubSeq(s, i, i + Len(word) - 1) = word
    THEN ParseOk(v, i + Len(word)) ELSE ParseFail

RECURSIVE ParseValue(_, _)
RECURSIVE ParseMembers(_, _, _)
RECURSIVE ParseElements(_, _, _)

\* the members of an object, the first key expected at i
ParseMembers(s, i, d) ==
    IF At(s, i) # "\"" THEN ParseFail
    ELSE LET key == ParseChars(s, i + 1, "")
         IN  IF ~key.ok THEN ParseFail
             ELSE LET colon == SkipWs(s, key.i)
                  IN  IF At(s, colon) # ":" THEN ParseFail
                      ELSE LET val == ParseValue(s, SkipWs(s, colon + 1))
                           IN  IF ~val.ok THEN ParseFail
                               ELSE LET d1 == DictSet(d, key.v.s, val.v)
                                        j == SkipWs(s, val.i)
                                    IN  IF At(s, j) = "}" THEN ParseOk(JObj(d1), j + 1)
                                        ELSE IF At(s, j) = ","
                                        THEN ParseMembers(s, SkipWs(s, j + 1), d1)
                                        ELSE ParseFail

\* the elements of an array, the first one expected at i
ParseElements(s, i, xs) ==
    LET val == ParseValue(s, i)
    IN  IF ~val.ok THEN ParseFail
        ELSE LET xs1 == Append(xs, val.v)
                 j == SkipWs(s, val.i)
             IN  IF At(s, j) = "]" THEN ParseOk(JList(xs1), j + 1)
                 ELSE IF At(s, j) = "," THEN ParseElements(s, SkipWs(s, j + 1), xs1)
                 ELSE ParseFail

ParseValue(s, i) ==
    LET c == At(s, i)
    IN  CASE c = "{" ->
                IF At(s, SkipWs(s, i + 1)) = "}"
                THEN ParseOk(JObj(EmptyDict), SkipWs(s, i + 1) + 1)
                ELSE ParseMembers(s, SkipWs(s, i + 1), EmptyDict)
          [] c = "[" ->
                IF At(s, SkipWs(s, i + 1)) = "]"
                THEN ParseOk(JList(<<>>), SkipWs(s, i + 1) + 1)
                ELSE ParseElements(s, SkipWs(s, i + 1), <<>>)
          [] c = "\"" -> ParseChars(s, i + 1, "")
          [] c = "0" -> ParseOk(JNum(0), i + 1)
          [] c \in DigitChars \ {"0"} -> ParseDigits(s, i, 0)
          [] c = "t" -> ParseWord(s, i, <<"t", "r", "u", "e">>, JBool(TRUE))
          [] c = "f" -> ParseWord(s, i, <<"f", "a", "l", "s", "e">>, JBool(FALSE))
          [] c = "n" -> ParseWord(s, i, <<"n", "u", "l", "l">>, JNull)
          [] OTHER -> ParseFail

\* json.loads(text): ok = FALSE stands for json.JSONDecodeError
json_loads(text) ==
    LET r == ParseValue(text, SkipWs(text, 1))
    IN  IF r.ok /\ SkipWs(text, r.i) = Len(text) + 1 THEN r ELSE ParseFail

(***************************************************************************)
(* What the LLM capability answers to one generate_content call:           *)
(*   kind "raises"    the call raises (msg)                                *)
(*   kind "blocked"   response.text raises ValueError, no candidates       *)
(*   kind "no_parts"  response.text raises ValueError, no part has text    *)
(*   kind "text"      a response text.  Either its characters are given *)
(*                    (text), or they are left open (text = Elided) and    *)
(*                    parse says how json.loads fares on the cleaned text: *)
(*                    "first" (parses as is), "repaired" (parses after the *)
(*                    two repairs) or "fail", value being the parsed value *)
(* fs says, per debug file, whether writing it works.                      *)
(***************************************************************************)
Elided == <<"...">>
LLMRaises(msg) ==
    [kind |-> "raises", msg |-> msg, parse |-> "none", value |-> JNull, text |-> <<>>]
LLMBlocked ==
    [kind |-> "blocked", msg |-> "", parse |-> "none", value |-> JNull, text |-> <<>>]
LLMNoParts ==
    [kind |-> "no_parts", msg |-> "", parse |-> "none", value |-> JNull, text |-> <<>>]
LLMText(parse, value) ==
    [kind |-> "text", msg |-> "", parse |-> parse, value |-> value, text |-> Elided]
LLMResponse(text) ==
    [kind |-> "text", msg |-> "", parse |-> "none", value |-> JNull, text |-> text]

\* ai_parser.py:252-260  json.loads of the cleaned text and, when that raises
\* JSONDecodeError, of the repaired text: which attempt parsed, and the value
ParseResponse(llm) ==
    IF llm.text = Elided THEN [parse |-> llm.parse, value |-> llm.value]
    ELSE LET cleaned == CleanResponse(llm.text)
         IN  IF json_loads(cleaned).ok
             THEN [parse |-> "first", value |-> json_loads(cleaned).v]
             ELSE IF json_loads(Repair(cleaned)).ok
             THEN [parse |-> "repaired", value |-> json_loads(Repair(cleaned)).v]
             ELSE [parse |-> "fail", value |-> JNull]

\* the debug files extract_structured_data_with_gemini writes
DebugFiles == {"response", "full_response", "failed", "error"}
WriteError(file) ==
    CASE file = "preview" -> "[Errno 13] Permission denied: 'debug_clean_preview.txt'"
      [] file = "clean_text" -> "[Errno 13] Permission denied: 'debug_clean_text.txt'"
      [] file = "response" -> "[Errno 13] Permission denied: 'debug_gemini_response.txt'"
      [] file = "full_response" -> "[Errno 13] Permission denied: 'debug_gemini_full_response.txt'"
      [] file = "failed" -> "[Errno 13] Permission denied: 'debug_gemini_failed.txt'"
      [] file = "error" -> "[Errno 13] Permission denied: 'debug_gemini_error.txt'"

Returns(v) == [t |-> "return", v |-> v, msg |-> ""]
Raises(msg) == [t |-> "raise", v |-> PyNone, msg |-> msg]

\* ai_parser.py:294-308  except Exception: write debug_gemini_error.txt, return None
\* (a failing write raises out of the handler)
OnException(fs) ==
    IF fs["error"] THEN Returns(PyNone) ELSE Raises(WriteError("error"))

\* ai_parser.py:287-293  except json.JSONDecodeError: write debug_gemini_failed.txt
OnJSONDecodeError(fs) ==
    IF fs["failed"] THEN Returns(PyNone) ELSE Raises(WriteError("failed"))

\* ai_parser.py:133-308
extract_structured_data_with_gemini(profile_url, llm, fs) ==
    CASE llm.kind = "raises" -> OnException(fs)
      [] llm.kind = "blocked" -> Returns(PyNone)
      [] llm.kind = "no_parts" ->
            IF fs["full_response"] THEN Returns(PyNone) ELSE OnException(fs)
      [] llm.kind = "text" ->
            IF ~fs["response"] THEN OnException(fs)
            ELSE IF ParseResponse(llm).parse = "fail" THEN OnJSONDecodeError(fs)
            ELSE LET r == PostProcess(ParseResponse(llm).value, profile_url)
                 IN  IF r.t = "TypeError" THEN OnException(fs)
                     ELSE Returns(r)

\* the three-key failure record
FailureMut(profile_url, error) ==
    [profile_url |-> JStr(profile_url), error |-> JStr(error), success |-> JBool(FALSE),
     name |-> JStr("ERROR")]
Failure(profile_url, error) ==
    [profile_url |-> JStr(profile_url), error |-> JStr(error), success |-> JBool(FALSE)]

\* ai_parser.py:310-330
extract_structured_data(profile_url, llm, fs) ==
    LET r == extract_structured_data_with_gemini(profile_url, llm, fs)
    IN  IF r.t = "raise" THEN Failure(profile_url, r.msg)
        ELSE IF r.v.t = "None" \/ DOMAIN r.v.d = {}          \* "if result:"
             THEN Failure(profile_url, "Gemini extraction failed")
        ELSE r.v.d

\* The exceptions raised while extract_structured_data runs (those that end the
\* try body or leave a handler), as their messages
JSONDecodeMsg == "Expecting value: line 1 column 1 (char 0)"
TypeErrorMsg == "TypeError"
ExtractRaised(profile_url, llm, fs) ==
    LET body ==
            CASE llm.kind = "raises" -> {llm.msg}
              [] llm.kind = "blocked" -> {}
              [] llm.kind = "no_parts" ->
                    IF fs["full_response"] THEN {} ELSE {WriteError("full_response")}
              [] llm.kind = "text" ->
                    IF ~fs["response"] THEN {WriteError("response")}
                    ELSE IF ParseResponse(llm).parse = "fail" THEN {JSONDecodeMsg}
                    ELSE IF PostProcess(ParseResponse(llm).value, profile_url).t = "TypeError"
                         THEN {TypeErrorMsg}
                    ELSE {}
        r == extract_structured_data_with_gemini(profile_url, llm, fs)
    IN  body \cup (IF r.t = "raise" THEN {r.msg} ELSE {})

\* a string literal of a JSON text
Quoted(body) == <<"\"">> \o body \o <<"\"">>

\* ai_parser.py:253, 260  the texts handed to json.loads, in the order of the calls
JSONLoadsCalls(llm, fs) ==
    IF llm.kind # "text" \/ ~fs["response"] THEN <<>>
    ELSE LET cleaned == CleanResponse(llm.text)
         IN  IF ParseResponse(llm).parse = "first" THEN <<cleaned>>
             ELSE <<cleaned, Repair(cleaned)>>

(***************************************************************************)
(* Bounded inputs of the extraction: the values json.loads may return.     *)
(***************************************************************************)
\* ai_parser.py:171-173  the volumes the prompt asks for
MaxExperiences == 5
MaxEducations == 3
MaxSkills == 15

Absent == [t |-> "absent"]

ExperienceItem ==
    JObj([title |-> JStr("Engineer"), company |-> JStr("Acme"),
          duration |-> JStr("Jan 2020 - Present")])
EducationItem ==
    JObj([school |-> JStr("MIT"), degree |-> JStr("BSc"), field |-> JStr("CS")])
SkillItem == JStr("Python")

\* the object with the given values; others: whether location, about,
\* current_position and current_company are there; own: whether the object carries
\* profile_url, success and error keys of its own
ParsedObject(name, headline, experiences, educations, skills, others, own) ==
    LET given ==
            [k \in {"name", "headline", "experiences", "educations", "skills",
                    "location", "about", "current_position", "current_company",
                    "profile_url", "success", "error"} |->
                CASE k = "name" -> name
                  [] k = "headline" -> headline
                  [] k = "experiences" -> experiences
                  [] k = "educations" -> educations
                  [] k = "skills" -> skills
                  [] k = "location" -> IF others THEN JStr("Pune, India") ELSE Absent
                  [] k = "about" -> IF others THEN NA ELSE Absent
                  [] k = "current_position" -> IF others THEN JStr("Engineer") ELSE Absent
                  [] k = "current_company" -> IF others THEN JStr("Acme") ELSE Absent
                  [] k = "profile_url" -> IF own THEN JStr("elsewhere") ELSE Absent
                  [] k = "success" -> IF own THEN JBool(FALSE) ELSE Absent
                  [] k = "error" -> IF own THEN JStr("model error") ELSE Absent]
    IN  JObj([k \in {k \in DOMAIN given : given[k] # Absent} |-> given[k]])

ParsedObjects ==
    LET Repeat(v, n) == [i \in 1..n |-> v]
        NameOptions == {Absent, JStr("Jane Doe")}
        HeadlineOptions == {Absent, JStr("Engineer at Acme"), JNull, JNum(7)}
        ExperiencesOptions ==
            {Absent, JNull, JStr(""), JStr("none"), JNum(0), JNum(3)}
            \cup {JList(Repeat(ExperienceItem, n)) :
                      n \in {0, 1, MaxExperiences, MaxExperiences + 1}}
        EducationsOptions ==
            {Absent, JObj(EmptyDict)}
            \cup {JList(Repeat(EducationItem, n)) :
                      n \in {0, MaxEducations, MaxEducations + 1}}
        SkillsOptions ==
            {Absent, JNull, JBool(TRUE), JBool(FALSE)}
            \cup {JList(Repeat(SkillItem, n)) : n \in {0, MaxSkills, MaxSkills + 1}}
        RestOptions == {<<FALSE, FALSE>>, <<TRUE, FALSE>>, <<TRUE, TRUE>>}
    IN  {ParsedObject(n, h, e, d, s, r[1], r[2]) :
            n \in NameOptions, h \in HeadlineOptions, e \in ExperiencesOptions,
            d \in EducationsOptions, s \in SkillsOptions, r \in RestOptions}

\* Response texts given by their characters: a body, alone or inside a fenced
\* block (with or without the json tag), commentary before and after it
ResponseBodies ==
    { <<"{">> \o Quoted(<<"a">>) \o <<":", " ", "1", "}">>,
      <<"{">> \o Quoted(<<"k">>) \o <<":", " ", "{">> \o Quoted(<<"m">>)
          \o <<":", " ", "[", "]", "}", "}">>,
      <<"{">> \o Quoted(<<"b">>) \o <<":", " ">>
          \o Quoted(<<"x", " ">> \o Fence \o <<"y">> \o Fence) \o <<"}">>,
      <<"{", "'", "a", "'", ":", " ", "'", "x", "'", ",", "}">>,
      <<"{">> \o Quoted(<<"a">>) \o <<":", " ">> \o Quoted(<<"x", "'", "y">>) \o <<",", "}">>,
      <<"{">> \o Quoted(<<"a">>) \o <<":", " ", "}">>,
      <<"[", "1", "]">>,
      <<"n", "o">> }
CommentaryBefore ==
    { <<>>, <<"H", "i", ":", NL>>, <<"a", " ", "{", "x", "}", " ", "b", NL>> }
CommentaryAfter ==
    { <<>>, <<NL, "o", "k", " ">>, <<NL, "{", "y", "}">> }
FenceTags == { <<>>, <<"j", "s", "o", "n">> }

Fenced(before, tag, body, after) ==
    before \o Fence \o tag \o <<NL>> \o body \o <<NL>> \o Fence \o after

LLMOutcomes ==
    LET \* values that are no object: the cleaned text held no '{'
        ParsedOthers ==
            {JList(<<>>), JList(<<SkillItem>>), JStr("Jane Doe"), JNum(7), JNull}
        ResponseTexts ==
            {Fenced(b, t, body, a) :
                b \in CommentaryBefore, t \in FenceTags, body \in ResponseBodies,
                a \in CommentaryAfter}
            \cup {b \o body \o a :
                b \in CommentaryBefore, body \in ResponseBodies, a \in CommentaryAfter}
    IN  {LLMRaises("504 Deadline Exceeded"), LLMBlocked, LLMNoParts,
         LLMText("fail", JNull)}
        \cup {LLMText(p, v) : p \in {"first", "repaired"}, v \in ParsedObjects \cup ParsedOthers}
        \cup {LLMResponse(t) : t \in ResponseTexts}

UrlPool == {"https://www.linkedin.com/in/jane/", "https://www.linkedin.com/in/raj/"}

(***************************************************************************)
(* SpecExtract: extract_structured_data on every outcome of LLMOutcomes.   *)
(***************************************************************************)
ExtractIdle ==
    /\ x_pc = "idle" /\ x_url = "" /\ x_llm = LLMBlocked
    /\ x_out = EmptyDict /\ x_parses = <<>>

Extract ==
    /\ x_pc = "call"
    /\ \E fs \in [DebugFiles -> BOOLEAN] :
          /\ x_out' = extract_structured_data(x_url, x_llm, fs)
          /\ x_parses' = JSONLoadsCalls(x_llm, fs)
    /\ x_pc' = "done"
    /\ UNCHANGED <<x_url, x_llm, nvars, pvars, rvars, svars, avars>>

(***************************************************************************)
(* Bounded inputs of the normaliser.                                       *)
(***************************************************************************)
Rep(c, n) == <<Run(c, n)>>

\* one long visible line: with a newline it leaves MaxCleanLen - 39991 = 9
\* characters under the cap
LongLine == Rep("a", 39990)

\* text nodes: lines the filter keeps, lines each rule drops, lines a cut can spoil
Elements ==
    LET TextNodes ==
            { Rep("a", 8),                                   \* a name
              Rep("a", 2),                                   \* 2 characters: too short
              Rep("a", 3),                                   \* 3 characters: kept
              Rep("7", 4),                                   \* all digits
              Rep("7", 9) \o Rep("a", 1),                    \* digits, then a letter
              Rep("{", 1) \o Rep("a", 5),                    \* starts with {
              Rep("[", 1) \o Rep("a", 5),                    \* starts with [
              Rep("a", 2) \o Rep("u", 1) \o Rep("r", 1) \o Rep("n", 1) \o Rep(":", 1)
                  \o Rep("l", 1) \o Rep("i", 1) \o Rep(":", 1) \o Rep("a", 3), \* urn:li:
              Rep("a", 7) \o Rep(",", 3),                    \* 30% symbols: kept
              Rep("a", 6) \o Rep(",", 3),                    \* 33% symbols: dropped
              Rep(",", 4) \o Rep("a", 10),                   \* 28% symbols, front-loaded
              Rep(" ", 2) \o Rep("a", 5) \o Rep(" ", 1),     \* padded
              Rep(" ", 3),                                   \* blank
              Rep("a", 9),                                   \* fills the cap exactly
              Rep("a", 6) \o Rep(NL, 1) \o Rep("a", 4),      \* two lines, cut after 2
              Rep("a", 8) \o Rep(NL, 2) \o Rep("7", 2) \o Rep(NL, 1) \o Rep("a", 3),
              Rep("a", 99),                                  \* below the 100 threshold
              Rep("a", 100),                                 \* at the 100 threshold
              LongLine }
    IN  {Elem("p", "", t) : t \in TextNodes}
        \cup {Elem(tg[1], tg[2], t) :
                 tg \in {<<"script", "">>, <<"main", "">>, <<"div", "pv-profile-card">>,
                         <<"section", "Profile-Section">>, <<"div", "nav">>},
                 t \in {Rep("a", 8), Rep("{", 1) \o Rep("a", 5)}}

\* the most elements under <body>
MaxElems == 2

RECURSIVE SeqsUpTo(_, _)
SeqsUpTo(S, n) ==
    IF n = 0 THEN {<<>>}
    ELSE LET shorter == SeqsUpTo(S, n - 1)
         IN  shorter \cup {Append(q, x) : q \in shorter, x \in S}

(***************************************************************************)
(* SpecNorm: html_to_clean_text on every page of Pages.                    *)
(***************************************************************************)
NormIdle == n_pc = "idle" /\ n_html = Unparseable /\ n_out = PyNone

Normalize ==
    /\ n_pc = "call"
    /\ \E preview_ok \in BOOLEAN :
          n_out' = html_to_clean_text(n_html, preview_ok)
    /\ n_pc' = "done"
    /\ UNCHANGED <<n_html, xvars, pvars, rvars, svars, avars>>

(***************************************************************************)
(* Bounded inputs of the repair: JSON texts, written with the pieces       *)
(* below.  String bodies hold apostrophes and commas before brackets.      *)
(***************************************************************************)
ScalarTexts ==
    LET StringBodies ==
            { <<>>, <<"x">>, <<"x", "'", "y">>, <<"'", "x", "'">>,
              <<"a", ",", "}">>, <<"a", ",", " ", "]">>,
              <<"{", "'", "k", "'", ":", "1", ",", "}">> }
    IN  {Quoted(b) : b \in StringBodies}
        \cup { <<"1">>, <<"1", "7">>, <<"0">>, <<"t", "r", "u", "e">>, <<"n", "u", "l", "l">> }

ValueTexts ==
    ScalarTexts
    \cup { <<"[", "]">>, <<"{", "}">>, <<"[", "1", ",", " ", "2", "]">>,
           <<"[", "1", " ", "]">> }

\* the texts json.loads accepts as they are
ValidJSONTexts ==
    LET JSONTexts ==
            ValueTexts
            \cup {<<"{">> \o Quoted(<<"k">>) \o <<":", " ">> \o v \o <<"}">> : v \in ValueTexts}
            \cup {<<"{">> \o Quoted(<<"k">>) \o <<":">> \o v \o <<",", NL>>
                      \o Quoted(<<"m">>) \o <<":", " ">> \o w \o <<NL, "}">> :
                      v \in ValueTexts, w \in ScalarTexts}
            \cup {<<"[">> \o v \o <<",", " ">> \o w \o <<"]">> : v \in ValueTexts, w \in ScalarTexts}
    IN  {t \in JSONTexts : json_loads(t).ok}

(***************************************************************************)
(* SpecRepair: the two repairs on every text of ValidJSONTexts.            *)
(***************************************************************************)
RepairIdle == r_pc = "idle" /\ r_text = <<>> /\ r_out = <<>>

RepairJSON ==
    /\ r_pc = "call"
    /\ r_out' = Repair(r_text)
    /\ r_pc' = "done"
    /\ UNCHANGED <<r_text, nvars, xvars, pvars, svars, avars>>

(***************************************************************************)
(* The batch pipeline (scraper.py).                                        *)
(***************************************************************************)
NoExc == ""

\* os.getenv('GEMINI_API_KEY'): unset, empty, the placeholder of the .env template,
\* or a key
KeyUnset == "None"

\* ai_parser.py:26
KeyRejected(key) == key = KeyUnset \/ key = "" \/ key = "your_gemini_key_here"

KeyErrorMsg == "GEMINI_API_KEY not found. This parser requires Gemini AI."
ConfigureErrorMsg == "Failed to configure Gemini: invalid transport"
ImportErrorMsg == "No module named 'google.generativeai'"
ImportFailedMsg == "AI parser import failed: No module named 'google.generativeai'"
DriverErrorMsg == "Message: invalid session id"

\* The URL the browser shows after driver.get, as its path segments; w in url holds
\* when a segment is w
UrlContains(url, w) == \E i \in 1..Len(url) : url[i] = w

\* scraper.py:116-121  the two checks, in the code's order; "" when both pass
RedirectErrorMut(current_url) ==
    IF UrlContains(current_url, "login")
    THEN "Redirected to login - session may have expired"
    ELSE IF UrlContains(current_url, "checkpoint") \/ UrlContains(current_url, "authwall")
    THEN "CAPTCHA or authentication required"
    ELSE ""
RedirectError(current_url) ==
    IF UrlContains(current_url, "checkpoint") \/ UrlContains(current_url, "authwall")
    THEN "CAPTCHA or authentication required"
    ELSE IF UrlContains(current_url, "login")
    THEN "Redirected to login - session may have expired"
    ELSE ""

\* the most URLs in a batch
MaxUrls == 2

Event(e, i) == [e |-> e, i |-> i]

\* no generate_content call was made
NoResponse == [kind |-> "none"]

CurIdle ==
    [current_url |-> <<>>, html |-> PyNone, clean_text |-> PyNone,
     response |-> NoResponse, profile_data |-> EmptyDict]

Total == Len(profile_urls)
Url == profile_urls[idx]

Log(es) == events' = events \o es
Raise(msgs) == raised' = [raised EXCEPT ![idx] = @ \cup msgs]

\* the record extract_profile_data returns is in hand: on to results.append
Yield(record) ==
    /\ cur' = [cur EXCEPT !.profile_data = record]
    /\ pc' = "append"

\* scraper.py:203  the for statement: the next URL
NextUrl ==
    /\ pc = "loop"
    /\ idx < Total
    /\ idx' = idx + 1
    /\ pc' = "progress"
    /\ UNCHANGED <<gemini_api_key, profile_urls, progress_callback, results, returned,
                   escaped, cur, raised, events, nvars, xvars, rvars, svars, avars>>

\* scraper.py:214  return results
Return ==
    /\ pc = "loop"
    /\ idx >= Total
    /\ returned' = [t |-> "list", xs |-> results]
    /\ pc' = "returned"
    /\ UNCHANGED <<gemini_api_key, profile_urls, progress_callback, idx, results,
                   escaped, cur, raised, events, nvars, xvars, rvars, svars, avars>>

\* scraper.py:204-205  progress_callback(idx, total, url)
Progress ==
    /\ pc = "progress"
    /\ IF progress_callback
       THEN Log(<<[e |-> "progress", i |-> idx, total |-> Total, url |-> Url]>>)
       ELSE UNCHANGED events
    /\ pc' = "navigate"
    /\ UNCHANGED <<gemini_api_key, profile_urls, progress_callback, idx, results,
                   returned, escaped, cur, raised, nvars, xvars, rvars, svars, avars>>

\* scraper.py:106-141 navigate_to_profile, and 156-163 of extract_profile_data
Navigate ==
    LET CurrentUrls ==
            { <<"www.linkedin.com", "in", "jane">>,
              <<"www.linkedin.com", "checkpoint", "challenge">>,
              <<"www.linkedin.com", "authwall">>,
              <<"www.linkedin.com", "login">>,
              <<"www.linkedin.com", "checkpoint", "login">> }
    IN  /\ pc = "navigate"
        /\ \/ \* driver.get raises: return False, str(e)
              /\ Log(<<Event("get", idx)>>)
              /\ Raise({DriverErrorMsg})
              /\ Yield(Failure(Url, DriverErrorMsg))
           \/ \E current_url \in CurrentUrls :
                 IF RedirectError(current_url) # ""
                 THEN /\ Log(<<Event("get", idx), Event("delay_4_6", idx),
                               Event("current_url", idx)>>)
                      /\ cur' = [cur EXCEPT
                                    !.current_url = current_url,
                                    !.profile_data = Failure(Url, RedirectError(current_url))]
                      /\ pc' = "append"
                      /\ UNCHANGED raised
                 ELSE \* the wait for <h1> and smooth_scroll swallow their exceptions
                      /\ Log(<<Event("get", idx), Event("delay_4_6", idx),
                               Event("current_url", idx), Event("wait_h1", idx),
                               Event("smooth_scroll", idx)>>)
                      /\ cur' = [cur EXCEPT !.current_url = current_url]
                      /\ pc' = "construct"
                      /\ UNCHANGED raised
        /\ UNCHANGED <<gemini_api_key, profile_urls, progress_callback, idx, results,
                       returned, escaped, nvars, xvars, rvars, svars, avars>>

\* scraper.py:168-178 with ai_parser.py:19-41: only ImportError is caught
ConstructParser ==
    /\ pc = "construct"
    /\ \/ \* the import fails
          /\ Raise({ImportErrorMsg})
          /\ Yield(Failure(Url, ImportFailedMsg))
          /\ UNCHANGED escaped
       \/ \* ai_parser.py:26-32  raise ValueError
          /\ KeyRejected(gemini_api_key)
          /\ Raise({KeyErrorMsg})
          /\ escaped' = KeyErrorMsg
          /\ pc' = "raised"
          /\ UNCHANGED cur
       \/ \* ai_parser.py:35-41  genai.configure or GenerativeModel raises
          /\ ~KeyRejected(gemini_api_key)
          /\ Raise({ConfigureErrorMsg})
          /\ escaped' = ConfigureErrorMsg
          /\ pc' = "raised"
          /\ UNCHANGED cur
       \/ /\ ~KeyRejected(gemini_api_key)
          /\ pc' = "parse"
          /\ UNCHANGED <<cur, raised, escaped>>
    /\ Log(<<Event("construct", idx)>>)
    /\ UNCHANGED <<gemini_api_key, profile_urls, progress_callback, idx, results,
                   returned, nvars, xvars, rvars, svars, avars>>

\* ai_parser.py:349  html_content = self.get_page_html()
GetPageHtml ==
    LET BatchPages ==
            { Page(FALSE, <<>>),
              Page(TRUE, <<Elem("p", "", Rep("a", 99))>>),
              Page(TRUE, <<Elem("p", "", Rep("a", 100))>>),
              Page(TRUE, <<Elem("main", "", LongLine), Elem("p", "", Rep("a", 8))>>) }
    IN  /\ pc = "parse"
        /\ Log(<<Event("page_source", idx)>>)
        /\ \/ /\ Raise({DriverErrorMsg})
              /\ Yield(Failure(Url, DriverErrorMsg))
           \/ \E page \in BatchPages :
                 /\ cur' = [cur EXCEPT !.html = page]
                 /\ pc' = "clean"
                 /\ UNCHANGED raised
        /\ UNCHANGED <<gemini_api_key, profile_urls, progress_callback, idx, results,
                       returned, escaped, nvars, xvars, rvars, svars, avars>>

\* ai_parser.py:354
MinCleanLen == 100
TooLittleText(clean_text) ==
    clean_text.t = "None" \/ clean_text.s = <<>> \/ StrLen(clean_text.s) < MinCleanLen

\* ai_parser.py:352-359
HtmlToCleanText ==
    /\ pc = "clean"
    /\ Log(<<Event("html_to_clean_text", idx)>>)
    /\ \E preview_ok \in BOOLEAN :
          LET clean_text == html_to_clean_text(cur.html, preview_ok)
          IN  /\ raised' = [raised EXCEPT ![idx] = @ \cup
                              (IF JoinedLines(cur.html).t = "None" THEN {"html"}
                               ELSE IF ~preview_ok THEN {WriteError("preview")}
                               ELSE {})]
              /\ IF TooLittleText(clean_text)
                 THEN /\ cur' = [cur EXCEPT
                                    !.clean_text = clean_text,
                                    !.profile_data =
                                        Failure(Url, "Failed to extract text from HTML")]
                      /\ pc' = "append"
                 ELSE /\ cur' = [cur EXCEPT !.clean_text = clean_text]
                      /\ pc' = "save"
    /\ UNCHANGED <<gemini_api_key, profile_urls, progress_callback, idx, results,
                   returned, escaped, nvars, xvars, rvars, svars, avars>>

\* ai_parser.py:361-364  debug_clean_text.txt; a failing write reaches line 379
SaveCleanText ==
    /\ pc = "save"
    /\ \/ /\ Raise({WriteError("clean_text")})
          /\ Yield(Failure(Url, WriteError("clean_text")))
       \/ /\ pc' = "extract"
          /\ UNCHANGED <<cur, raised>>
    /\ UNCHANGED <<gemini_api_key, profile_urls, progress_callback, idx, results,
                   returned, escaped, events, nvars, xvars, rvars, svars, avars>>

\* ai_parser.py:369-377  what parse_profile makes of the extraction's record
ParseProfileResult(profile_url, profile_data) ==
    IF DOMAIN profile_data = {} \/ Falsy(DictGet(profile_data, "success", JNull))
    THEN [profile_url |-> JStr(profile_url),
          error |-> DictGet(profile_data, "error",
                            JStr("Failed to extract structured data")),
          success |-> JBool(FALSE)]
    ELSE profile_data

\* ai_parser.py:367-377
ExtractStructuredData ==
    LET BatchLLM ==
            { LLMRaises("504 Deadline Exceeded"), LLMBlocked, LLMText("fail", JNull),
              LLMText("first", JList(<<>>)),
              LLMText("first", ParsedObject(JStr("Jane Doe"), JStr("Engineer at Acme"),
                                            JList(<<ExperienceItem>>), JList(<<EducationItem>>),
                                            JList(<<SkillItem>>), TRUE, FALSE)),
              LLMText("repaired", JObj(EmptyDict)),
              LLMText("first", ParsedObject(Absent, Absent, Absent, Absent, Absent, FALSE, TRUE)) }
    IN  /\ pc = "extract"
        /\ Log(<<Event("generate_content", idx)>>)
        /\ \E llm \in BatchLLM, fs \in [DebugFiles -> BOOLEAN] :
              /\ Raise(ExtractRaised(Url, llm, fs))
              /\ cur' = [cur EXCEPT
                            !.response = llm,
                            !.profile_data =
                                ParseProfileResult(Url, extract_structured_data(Url, llm, fs))]
              /\ pc' = "append"
        /\ UNCHANGED <<gemini_api_key, profile_urls, progress_callback, idx, results,
                       returned, escaped, nvars, xvars, rvars, svars, avars>>

\* scraper.py:208-212  results.append, and the pause unless this was the last URL
AppendResult ==
    /\ pc = "append"
    /\ results' = Append(results, cur.profile_data)
    /\ IF idx < Total THEN Log(<<Event("delay_6_10", idx)>>) ELSE UNCHANGED events
    /\ cur' = CurIdle
    /\ pc' = "loop"
    /\ UNCHANGED <<gemini_api_key, profile_urls, progress_callback, idx, returned,
                   escaped, raised, nvars, xvars, rvars, svars, avars>>

BatchIdle ==
    /\ pc = "idle" /\ gemini_api_key = KeyUnset /\ profile_urls = <<>>
    /\ progress_callback = FALSE /\ idx = 0 /\ results = <<>>
    /\ returned = PyNone /\ escaped = NoExc /\ cur = CurIdle
    /\ raised = <<>> /\ events = <<>>

(***************************************************************************)
(* smooth_scroll (scraper.py:70-104).  The page's height is what the       *)
(* browser answers to "return document.body.scrollHeight"; lazy loading    *)
(* changes it between two measurements, at most MaxGrowths times during a  *)
(* call.  Every execute_script may raise; the handler at line 103 swallows *)
(* the exception and the routine returns.                                  *)
(***************************************************************************)
\* scraper.py:76  range(3)
ScrollPasses == 3
\* scraper.py:82
ScrollIncrement == 400

\* the heights a page may have
Heights == {0, 1, 400, 401, 1000}
\* how often the height changes during one call, at most
MaxGrowths == 2

Measure(h) == [op |-> "scrollHeight", arg |-> h]
ScrollTo(top) == [op |-> "scrollTo", arg |-> top]

\* scraper.py:92-93  the target after a measurement
NextTargetMut(target, new_height) == new_height
NextTarget(target, new_height) == IF new_height > target THEN new_height ELSE target

\* the page's height at the next measurement: as it was, or changed
Remeasured(h, budget) ==
    {[height |-> h, budget |-> budget]}
    \cup {[height |-> g, budget |-> budget - 1] : g \in {g \in Heights : budget > 0 /\ g # h}}

\* scraper.py:103-104  except Exception: print
ScrollFails ==
    /\ s_exc' = TRUE
    /\ s_pc' = "done"
    /\ UNCHANGED <<scroll_pass, last_height, current_position, scroll_height, s_growths,
                   s_calls>>

\* scraper.py:76-84  the for statement: the next pass measures the page and starts
\* at position 0; after the third pass the routine goes on to line 99
BeginPass ==
    /\ s_pc = "pass"
    /\ IF scroll_pass < ScrollPasses
       THEN \/ \E m \in Remeasured(scroll_height, s_growths) :
                  /\ scroll_height' = m.height
                  /\ s_growths' = m.budget
                  /\ last_height' = m.height
                  /\ current_position' = 0
                  /\ s_calls' = Append(s_calls, Measure(m.height))
                  /\ s_pc' = "while"
                  /\ UNCHANGED <<scroll_pass, s_exc>>
            \/ ScrollFails
       ELSE /\ s_pc' = "top"
            /\ UNCHANGED <<scroll_pass, last_height, current_position, scroll_height,
                           s_growths, s_exc, s_calls>>
    /\ UNCHANGED <<nvars, xvars, pvars, rvars, avars>>

\* scraper.py:85-93  one turn of the while loop: scroll on by the increment,
\* measure the page again, raise the target when the page is higher
ScrollStep ==
    /\ s_pc = "while"
    /\ current_position < last_height
    /\ \/ \E m \in Remeasured(scroll_height, s_growths) :
             /\ current_position' = current_position + ScrollIncrement
             /\ scroll_height' = m.height
             /\ s_growths' = m.budget
             /\ last_height' = NextTarget(last_height, m.height)
             /\ s_calls' = s_calls \o <<ScrollTo(current_position + ScrollIncrement),
                                        Measure(m.height)>>
             /\ UNCHANGED <<s_pc, scroll_pass, s_exc>>
       \/ \* window.scrollTo raises
          ScrollFails
       \/ \* the measurement after the scroll raises
          /\ s_exc' = TRUE
          /\ s_pc' = "done"
          /\ current_position' = current_position + ScrollIncrement
          /\ s_calls' = Append(s_calls, ScrollTo(current_position + ScrollIncrement))
          /\ UNCHANGED <<scroll_pass, last_height, scroll_height, s_growths>>
    /\ UNCHANGED <<nvars, xvars, pvars, rvars, avars>>

\* scraper.py:85, 95-96  the while condition fails: the pass is over
EndPass ==
    /\ s_pc = "while"
    /\ ~(current_position < last_height)
    /\ scroll_pass' = scroll_pass + 1
    /\ s_pc' = "pass"
    /\ UNCHANGED <<last_height, current_position, scroll_height, s_growths, s_exc, s_calls>>
    /\ UNCHANGED <<nvars, xvars, pvars, rvars, avars>>

\* scraper.py:99-100  back to the top
ScrollToTop ==
    /\ s_pc = "top"
    /\ \/ /\ s_calls' = Append(s_calls, ScrollTo(0))
          /\ s_pc' = "done"
          /\ UNCHANGED <<scroll_pass, last_height, current_position, scroll_height,
                         s_growths, s_exc>>
       \/ ScrollFails
    /\ UNCHANGED <<nvars, xvars, pvars, rvars, avars>>

ScrollIdle ==
    /\ s_pc = "idle" /\ scroll_pass = 0 /\ last_height = 0 /\ current_position = 0
    /\ scroll_height = 0 /\ s_growths = 0 /\ s_exc = FALSE /\ s_calls = <<>>


(***************************************************************************)
(* The Streamlit session (app.py).  Every click reruns the script with one *)
(* button pressed; a button can be pressed only where the script rendered  *)
(* it.  A LinkedInScraper is [driver, is_logged_in], driver being 0 for    *)
(* None and the number of its Chrome instance otherwise.                   *)
(***************************************************************************)
\* the most Chrome instances started in one session
MaxBrowsers == 3

\* scraper.py:16-18  LinkedInScraper()
LinkedInScraper(driver, is_logged_in) ==
    [t |-> "LinkedInScraper", driver |-> driver, is_logged_in |-> is_logged_in]

\* scraper.py:216-224  close(): the scraper afterwards, and the driver quit() was
\* called on (0: none)
CloseMut(s) == [scraper |-> [s EXCEPT !.is_logged_in = FALSE], quit |-> s.driver]
Close(s) ==
    IF s.driver # 0
    THEN [scraper |-> LinkedInScraper(0, FALSE), quit |-> s.driver]
    ELSE [scraper |-> s, quit |-> 0]

\* app.py:186-195  "Open Browser & Login": a new scraper; Chrome may fail to start,
\* driver.get may raise; browser_opened is set only when both worked
OpenBrowser ==
    /\ ~logged_in
    /\ chrome_started < MaxBrowsers
    /\ ui_action' = "open"
    /\ \/ \* scraper.py:32  uc.Chrome raises
          /\ scraper' = LinkedInScraper(0, FALSE)
          /\ UNCHANGED <<browser_opened, chrome_started, chrome_open>>
       \/ \* scraper.py:40  driver.get raises
          /\ scraper' = LinkedInScraper(chrome_started + 1, FALSE)
          /\ chrome_started' = chrome_started + 1
          /\ chrome_open' = chrome_open \cup {chrome_started + 1}
          /\ UNCHANGED browser_opened
       \/ /\ scraper' = LinkedInScraper(chrome_started + 1, FALSE)
          /\ chrome_started' = chrome_started + 1
          /\ chrome_open' = chrome_open \cup {chrome_started + 1}
          /\ browser_opened' = TRUE
    /\ UNCHANGED <<logged_in, scraped_data, quits, released>>
    /\ UNCHANGED <<nvars, xvars, pvars, rvars, svars>>

\* app.py:197-209 with scraper.py:43-63  "Confirm Login": check_login_status
\* answers False when the scraper has no driver or the driver raises
ConfirmLogin ==
    /\ ~logged_in
    /\ browser_opened
    /\ ui_action' = "confirm"
    /\ \/ /\ scraper # PyNone
          /\ scraper.driver # 0
          /\ scraper' = [scraper EXCEPT !.is_logged_in = TRUE]
          /\ logged_in' = TRUE
       \/ UNCHANGED <<scraper, logged_in>>
    /\ UNCHANGED <<scraped_data, browser_opened, chrome_started, chrome_open, quits,
                   released>>
    /\ UNCHANGED <<nvars, xvars, pvars, rvars, svars>>

\* app.py:257-291  "Start Scraping", rendered in the block "if logged_in": the
\* results are stored unless scrape_multiple_profiles raises
StartScraping ==
    /\ logged_in
    /\ ui_action' = "scrape"
    /\ \/ \E rs \in SeqsUpTo({"success", "failure"}, 2) \ {<<>>} :    \* a non-empty list
             scraped_data' = [t |-> "list", xs |-> rs]
       \/ UNCHANGED scraped_data
    /\ UNCHANGED <<scraper, logged_in, browser_opened, chrome_started, chrome_open, quits,
                   released>>
    /\ UNCHANGED <<nvars, xvars, pvars, rvars, svars>>

\* app.py:340-343  "Clear Results", rendered in the block "if scraped_data"
ClearResults ==
    /\ scraped_data # PyNone
    /\ ui_action' = "clear"
    /\ scraped_data' = PyNone
    /\ UNCHANGED <<scraper, logged_in, browser_opened, chrome_started, chrome_open, quits,
                   released>>
    /\ UNCHANGED <<nvars, xvars, pvars, rvars, svars>>

\* app.py:213-220  "Logout & Close Browser": driver.quit() may raise (swallowed),
\* and then the window may stay
Logout ==
    /\ logged_in
    /\ ui_action' = "logout"
    /\ IF scraper # PyNone
       THEN /\ released' = Close(scraper).scraper
            /\ IF Close(scraper).quit # 0
               THEN /\ quits' = Append(quits, Close(scraper).quit)
                    /\ \/ chrome_open' = chrome_open \ {Close(scraper).quit}
                       \/ UNCHANGED chrome_open
               ELSE UNCHANGED <<quits, chrome_open>>
       ELSE UNCHANGED <<released, quits, chrome_open>>
    /\ scraper' = PyNone
    /\ logged_in' = FALSE
    /\ browser_opened' = FALSE
    /\ scraped_data' = PyNone
    /\ UNCHANGED chrome_started
    /\ UNCHANGED <<nvars, xvars, pvars, rvars, svars>>

\* app.py:25-36
AppStart ==
    /\ scraper = PyNone /\ logged_in = FALSE /\ scraped_data = PyNone
    /\ browser_opened = FALSE /\ ui_action = "none" /\ chrome_started = 0
    /\ chrome_open = {} /\ quits = <<>> /\ released = PyNone


(***************************************************************************)
(* The specifications.                                                     *)
(***************************************************************************)
InitNorm ==
    LET Pages ==
            {Unparseable, Page(FALSE, <<>>)}
            \cup {Page(TRUE, es) : es \in SeqsUpTo(Elements, MaxElems)}
    IN  /\ n_pc = "call" /\ n_html \in Pages /\ n_out = PyNone
        /\ ExtractIdle /\ BatchIdle /\ RepairIdle /\ ScrollIdle /\ AppStart
SpecNorm == InitNorm /\ [][Normalize]_vars

InitExtract ==
    /\ x_pc = "call" /\ x_url \in UrlPool /\ x_llm \in LLMOutcomes /\ x_out = EmptyDict
    /\ x_parses = <<>>
    /\ NormIdle /\ BatchIdle /\ RepairIdle /\ ScrollIdle /\ AppStart
SpecExtract == InitExtract /\ [][Extract]_vars

InitRepair ==
    /\ r_pc = "call" /\ r_text \in ValidJSONTexts /\ r_out = <<>>
    /\ NormIdle /\ ExtractIdle /\ BatchIdle /\ ScrollIdle /\ AppStart
SpecRepair == InitRepair /\ [][RepairJSON]_vars

InitScroll ==
    /\ s_pc = "pass" /\ scroll_pass = 0 /\ last_height = 0 /\ current_position = 0
    /\ scroll_height \in Heights /\ s_growths \in 0..MaxGrowths
    /\ s_exc = FALSE /\ s_calls = <<>>
    /\ NormIdle /\ ExtractIdle /\ BatchIdle /\ RepairIdle /\ AppStart
NextScroll == BeginPass \/ ScrollStep \/ EndPass \/ ScrollToTop
\* the routine is one thread of control: it goes on as long as it has a next step
SpecScroll == InitScroll /\ [][NextScroll]_vars /\ WF_vars(NextScroll)

InitApp ==
    /\ AppStart
    /\ NormIdle /\ ExtractIdle /\ BatchIdle /\ RepairIdle /\ ScrollIdle
NextApp == OpenBrowser \/ ConfirmLogin \/ StartScraping \/ ClearResults \/ Logout
SpecApp == InitApp /\ [][NextApp]_vars

Init ==
    /\ pc = "loop"
    /\ gemini_api_key \in {KeyUnset, "", "your_gemini_key_here", "AIza-key"}
    /\ profile_urls \in SeqsUpTo(UrlPool, MaxUrls)
    /\ progress_callback \in BOOLEAN
    /\ idx = 0
    /\ results = <<>>
    /\ returned = PyNone
    /\ escaped = NoExc
    /\ cur = CurIdle
    /\ raised = [i \in 1..Len(profile_urls) |-> {}]
    /\ events = <<>>
    /\ NormIdle /\ ExtractIdle /\ RepairIdle /\ ScrollIdle /\ AppStart

Next ==
    \/ NextUrl
    \/ Progress
    \/ Navigate
    \/ ConstructParser
    \/ GetPageHtml
    \/ HtmlToCleanText
    \/ SaveCleanText
    \/ ExtractStructuredData
    \/ AppendResult
    \/ Return

Spec == Init /\ [][Next]_vars

(***************************************************************************)
(* Properties.                                                             *)
(***************************************************************************)
\* how often capability call e was made for URL number i
Calls(e, i) == Cardinality({k \in 1..Len(events) : events[k] = Event(e, i)})

Ended == pc \in {"returned", "raised"}

FailureKeys == {"profile_url", "success", "error"}
\* the failure record {profile_url, error, success: False}
FailureRecord(url, msg) ==
    [profile_url |-> JStr(url), error |-> JStr(msg), success |-> JBool(FALSE)]
SuccessFields ==
    {"name", "headline", "location", "about", "current_position", "current_company",
     "experiences", "educations", "skills"}

\* C1: whatever happens for each URL, scrape_multiple_profiles ends by returning a
\* list as long as profile_urls whose i-th record has profile_url = profile_urls[i].
C1_OneRecordPerUrl ==
    Ended =>
        /\ returned.t = "list"
        /\ Len(returned.xs) = Len(profile_urls)
        /\ \A i \in 1..Len(profile_urls) :
              returned.xs[i].profile_url = JStr(profile_urls[i])

\* the record's error carries the message msg of a raised exception
Carries(record, msg) ==
    \/ record.error = JStr(msg)
    \/ msg = ImportErrorMsg /\ record.error = JStr(ImportFailedMsg)

\* C2: an exception raised at any stage of processing URL i never aborts the batch:
\* no exception leaves scrape_multiple_profiles, and the record of a URL during
\* whose processing an exception was raised is a failure record carrying the
\* message of such an exception.
C2_FailuresContained ==
    /\ pc # "raised"
    /\ \A i \in 1..Len(results) :
          raised[i] # {} =>
              /\ results[i].success = JBool(FALSE)
              /\ \E msg \in raised[i] : Carries(results[i], msg)

Extracted == x_pc = "done"
ExtractedOk == Extracted /\ x_out.success = JBool(TRUE)
\* what the parsed object held under key (Absent: no such key)
Parsed(key) == DictGet(ParseResponse(x_llm).value.d, key, Absent)
NonEmpty(v) == (v.t = "list" /\ v.xs # <<>>) \/ (v.t = "str" /\ v.s # "")

\* C3: in a success record experiences, educations and skills are never empty
\* sequences: an absent, null or empty value has become the placeholder of its
\* key, and a non-empty value is the parsed one, unchanged.
C3_ListsNeverEmpty ==
    ExtractedOk =>
        \A k \in {"experiences", "educations", "skills"} :
            /\ k \in DOMAIN x_out
            /\ x_out[k] # JList(<<>>)
            /\ Parsed(k) \in {Absent, JNull, JList(<<>>)} =>
                  x_out[k] = (CASE k = "experiences" -> ExperiencePlaceholder
                                [] k = "educations" -> EducationPlaceholder
                                [] k = "skills" -> SkillsPlaceholder)
            /\ NonEmpty(Parsed(k)) => x_out[k] = Parsed(k)

\* a success record made from an empty experiences list, a missing skills key and
\* a non-empty educations list
C3_Witness ==
    /\ ExtractedOk
    /\ Parsed("experiences") = JList(<<>>)
    /\ Parsed("skills") = Absent
    /\ NonEmpty(Parsed("educations"))
    /\ x_out["experiences"] = ExperiencePlaceholder

\* C4: every record extract_profile_data returns with success = false has exactly
\* the keys profile_url, success and error, and its error is a string.
C4_FailureShape ==
    /\ \A i \in 1..Len(results) :
          results[i].success = JBool(FALSE) =>
              DOMAIN results[i] = FailureKeys /\ results[i].error.t = "str"
    /\ pc = "append" /\ cur.profile_data.success = JBool(FALSE) =>
          DOMAIN cur.profile_data = FailureKeys /\ cur.profile_data.error.t = "str"

\* failures of two stages side by side: a redirect and a failed extraction
C4_Witness ==
    /\ Len(results) = 2
    /\ results[1].error = JStr("CAPTCHA or authentication required")
    /\ results[2].error = JStr("Gemini extraction failed")

\* C5: every record is either a success record holding all nine structured fields,
\* whatever keys the LLM's object held, or a three-key failure record.
C5_AllFieldsPresent ==
    Extracted =>
        \/ x_out.success = JBool(TRUE) /\ SuccessFields \subseteq DOMAIN x_out
        \/ x_out.success = JBool(FALSE) /\ DOMAIN x_out = FailureKeys

\* C6: in a success record experiences has at most 5 entries, educations at most 3
\* and skills at most 15.
C6_VolumeCaps ==
    ExtractedOk =>
        /\ x_out.experiences.t = "list" => Len(x_out.experiences.xs) <= MaxExperiences
        /\ x_out.educations.t = "list" => Len(x_out.educations.xs) <= MaxEducations
        /\ x_out.skills.t = "list" => Len(x_out.skills.xs) <= MaxSkills

\* the lines of a text (str.splitlines: a final newline opens no line)
TextLines(s) ==
    IF s = <<>> THEN <<>>
    ELSE IF s[Len(s)].c = NL /\ s[Len(s)].n = 1
    THEN SplitLines(SubSeq(s, 1, Len(s) - 1))
    ELSE SplitLines(s)

\* what the filter is to keep out: all digits, 2 characters or fewer, more than 30%
\* of the characters among {}[]":,
Noise(line) ==
    \/ line # <<>> /\ \A i \in 1..Len(line) : line[i].c \in Digits
    \/ StrLen(line) <= 2
    \/ CountIn(line, {"{", "}", "[", "]", "\"", ":", ","}) * 10 > StrLen(line) * 3

Normalized == n_pc = "done" /\ n_out.t = "str"
\* the join of the surviving lines was longer than the cap
Truncated == StrLen(JoinedLines(n_html).s) > 40000

\* C7 (as claimed): no line of the returned text is all-digit, of length <= 2 or
\* symbol-dense, the last line of a truncated output included.
C7_NoNoiseLine ==
    Normalized => \A i \in 1..Len(TextLines(n_out.s)) : ~Noise(TextLines(n_out.s)[i])

\* C7 (amended): no line of the returned text is all-digit, of length <= 2 or
\* symbol-dense, except possibly the last line of an output that was truncated at
\* the cap.
C7_NoNoiseLineBeforeCut ==
    Normalized =>
        \A i \in 1..Len(TextLines(n_out.s)) :
            (i < Len(TextLines(n_out.s)) \/ ~Truncated) => ~Noise(TextLines(n_out.s)[i])

\* a truncated output of two lines whose last line the cut left as noise
C7_Witness ==
    /\ Normalized
    /\ Truncated
    /\ Len(TextLines(n_out.s)) = 2
    /\ Noise(TextLines(n_out.s)[2])

\* C8: the returned text is the join of the surviving lines when that has at most
\* 40,000 characters and its first 40,000 characters otherwise: never longer than
\* 40,000, always a prefix of the join.
C8_CapIsPrefix ==
    Normalized =>
        LET join == JoinedLines(n_html).s
        IN  /\ StrLen(n_out.s) <= 40000
            /\ IsPrefixOf(n_out.s, join)
            /\ StrLen(join) <= 40000 => n_out.s = join
            /\ StrLen(join) > 40000 => StrLen(n_out.s) = 40000

\* a join of 40,001 characters or more was cut
C8_Witness == Normalized /\ Truncated /\ StrLen(n_out.s) = 40000

\* C9: once normalisation has run for the URL in hand and its record is ready,
\* a null or shorter-than-100 text has given the failure "Failed to extract text
\* from HTML" without a call of the LLM, and a text of 100 characters or more has
\* led to a call of the LLM.
C9_ThresholdGatesLLM ==
    pc = "append" /\ Calls("html_to_clean_text", idx) = 1 =>
        IF cur.clean_text.t = "None" \/ StrLen(cur.clean_text.s) < 100
        THEN /\ cur.profile_data = FailureRecord(Url, "Failed to extract text from HTML")
             /\ Calls("generate_content", idx) = 0
        ELSE Calls("generate_content", idx) = 1

\* no scroll, capture, normalisation or LLM call for URL i, and one navigation
NothingAfterNavigation(i) ==
    /\ Calls("get", i) = 1
    /\ Calls("smooth_scroll", i) = 0
    /\ Calls("page_source", i) = 0
    /\ Calls("html_to_clean_text", i) = 0
    /\ Calls("generate_content", i) = 0

\* C10: a current URL containing checkpoint or authwall gives the failure "CAPTCHA
\* or authentication required"; otherwise one containing login gives "Redirected
\* to login - session may have expired"; in both cases nothing but the one
\* navigation was done for that URL.
C10_RedirectsAreTerminal ==
    pc = "append" /\ cur.current_url # <<>> =>
        LET wall == \E k \in 1..Len(cur.current_url) :
                        cur.current_url[k] \in {"checkpoint", "authwall"}
            login == \E k \in 1..Len(cur.current_url) : cur.current_url[k] = "login"
        IN  /\ wall =>
                  /\ cur.profile_data = FailureRecord(Url, "CAPTCHA or authentication required")
                  /\ NothingAfterNavigation(idx)
            /\ ~wall /\ login =>
                  /\ cur.profile_data =
                        FailureRecord(Url, "Redirected to login - session may have expired")
                  /\ NothingAfterNavigation(idx)

\* the browser landed on a URL that holds both checkpoint and login
C10_Witness ==
    /\ pc = "append"
    /\ cur.current_url = <<"www.linkedin.com", "checkpoint", "login">>
    /\ cur.profile_data.success = JBool(FALSE)

\* C11: the repair applied to a text that is valid JSON gives a text that json.loads
\* accepts and that parses to the value of the text before.
C11_RepairKeepsValidJSON ==
    r_pc = "done" =>
        /\ json_loads(r_out).ok
        /\ json_loads(r_out).v = json_loads(r_text).v

\* the span of s from its first { to its last }
BraceSpan(s) ==
    LET opens == {i \in 1..Len(s) : s[i] = "{"}
        closes == {i \in 1..Len(s) : s[i] = "}"}
    IN  SubSeq(s, CHOOSE i \in opens : \A j \in opens : i <= j,
                  CHOOSE i \in closes : \A j \in closes : j <= i)

JSONObjectBodies == {b \in ResponseBodies : json_loads(b).ok /\ json_loads(b).v.t = "obj"}

\* C14: for a response made of a JSON object in a fenced block, tagged json or
\* not, with or without commentary around it, the first text handed to json.loads
\* is the span from the first { to the last } of the fenced content; for an
\* unfenced response it is that span of the whole response.
C14_FramingStripped ==
    x_pc = "done" /\ x_llm.text \notin {<<>>, Elided} /\ x_parses # <<>> =>
        \A b \in CommentaryBefore, body \in JSONObjectBodies, a \in CommentaryAfter :
            /\ \A t \in FenceTags :
                  x_llm.text = Fenced(b, t, body, a) =>
                      x_parses[1] = BraceSpan(<<NL>> \o body \o <<NL>>)
            /\ x_llm.text = b \o body \o a =>
                  x_parses[1] = BraceSpan(x_llm.text)

\* C12: json.loads is called at most twice: on the cleaned text and, only when
\* that fails, once more on the text the two repairs make of it; when the second
\* call fails too the record is a failure record whose error is the JSON parse
\* error, never a success record.
C12_OneRetryThenFailure ==
    x_pc = "done" =>
        /\ Len(x_parses) <= 2
        /\ Len(x_parses) = 2 =>
              /\ ParseResponse(x_llm).parse # "first"
              /\ x_parses[2] = Repair(x_parses[1])
        /\ x_parses # <<>> /\ ParseResponse(x_llm).parse = "first" => Len(x_parses) = 1
        /\ x_parses # <<>> /\ ParseResponse(x_llm).parse = "fail" =>
              /\ Len(x_parses) = 2
              /\ x_out = FailureRecord(x_url, JSONDecodeMsg)

\* C13: when generate_content raises, or a later step raises something other than
\* a JSON parse error (here the TypeError of the post-processing), the record is
\* {profile_url, error: str(exception), success: false}.
C13_ErrorIsExceptionMessage ==
    x_pc = "done" =>
        /\ x_llm.kind = "raises" => x_out = FailureRecord(x_url, x_llm.msg)
        /\ (/\ x_parses # <<>>
            /\ ParseResponse(x_llm).parse # "fail"
            /\ PostProcess(ParseResponse(x_llm).value, x_url).t = "TypeError") =>
              x_out = FailureRecord(x_url, TypeErrorMsg)

\* the calls that make the outline of a run: the progress callback, the start of
\* extract_profile_data (its driver.get) and the pause between two URLs
Outline == SelectSeq(events, LAMBDA ev : ev.e \in {"progress", "get", "delay_6_10"})

\* progress(i, n, u_i) when a callback was supplied, scrapeOne(u_i), and the pause
\* unless u_i is the last URL
OutlineOf(i) ==
    (IF progress_callback
     THEN <<[e |-> "progress", i |-> i, total |-> Len(profile_urls), url |-> profile_urls[i]]>>
     ELSE <<>>)
    \o <<[e |-> "get", i |-> i]>>
    \o (IF i < Len(profile_urls) THEN <<[e |-> "delay_6_10", i |-> i]>> ELSE <<>>)

ExpectedOutline ==
    LET F[i \in 0..Len(profile_urls)] == IF i = 0 THEN <<>> ELSE F[i - 1] \o OutlineOf(i)
    IN  F[Len(profile_urls)]

\* C15: the run of scrape_multiple_profiles over n URLs is progress(1, n, u1),
\* scrapeOne(u1), pause, ..., progress(n, n, un), scrapeOne(un): in input order,
\* one URL at a time, n - 1 pauses, none after the last URL.
C15_EventTrace == Ended => Outline = ExpectedOutline

\* C15 for the runs that return
C15_EventTraceOfReturnedRuns == pc = "returned" => Outline = ExpectedOutline

\* C16: no step is retried: for each input URL there is exactly one navigation and
\* at most one generate_content call in the run, whatever failures occur, and
\* never a second navigation to a URL.
C16_NoRetry ==
    /\ \A i \in 1..Len(profile_urls) :
          Calls("get", i) <= 1 /\ Calls("generate_content", i) <= 1
    /\ Ended => \A i \in 1..Len(profile_urls) : Calls("get", i) = 1

\* C16 for the runs that return
C16_NoRetryInReturnedRuns ==
    /\ \A i \in 1..Len(profile_urls) :
          Calls("get", i) <= 1 /\ Calls("generate_content", i) <= 1
    /\ pc = "returned" => \A i \in 1..Len(profile_urls) : Calls("get", i) = 1

\* A pass read off the log of browser calls.  From index i, the position being pos
\* and the target being target: as long as pos < target the log holds a scroll to
\* pos + 400 and a measurement, which raises the target when the page has grown;
\* the value is the index after the pass, 0 when the log does not read that way.
RECURSIVE PassEnd(_, _, _, _)
PassEnd(log, i, pos, target) ==
    IF pos >= target THEN i
    ELSE IF i + 1 > Len(log) THEN 0
    ELSE IF log[i] # [op |-> "scrollTo", arg |-> pos + 400] THEN 0
    ELSE IF log[i + 1].op # "scrollHeight" THEN 0
    ELSE PassEnd(log, i + 2, pos + 400,
                 IF log[i + 1].arg > target THEN log[i + 1].arg ELSE target)

\* the index after k passes that start at index i, 0 when the log does not read so
RECURSIVE PassesEnd(_, _, _)
PassesEnd(log, i, k) ==
    IF k = 0 THEN i
    ELSE IF i = 0 \/ i > Len(log) \/ log[i].op # "scrollHeight" THEN 0
    ELSE LET e == PassEnd(log, i + 1, 0, log[i].arg)
         IN  IF e = 0 THEN 0 ELSE PassesEnd(log, e, k - 1)

\* three passes, then one scroll to the top, and nothing else
ThreePassesThenTop(log) ==
    /\ log # <<>>
    /\ PassesEnd(log, 1, 3) = Len(log)
    /\ log[Len(log)] = [op |-> "scrollTo", arg |-> 0]

ScrollDone == s_pc = "done"

AllWritten == [f \in DebugFiles |-> TRUE]

\* C18: whether the debug files (the preview, the clean text, the raw response and
\* the other dumps) can be written does not change what html_to_clean_text
\* returns, nor the record of the extraction and of parse_profile: for the page
\* captured and the answer of the LLM they are what they are when every write
\* works.
C18_DebugWritesDoNotMatter ==
    pc = "append" /\ cur.html # PyNone =>
        LET clean_text == html_to_clean_text(cur.html, TRUE)
        IN  /\ cur.clean_text = clean_text
            /\ IF TooLittleText(clean_text)
               THEN cur.profile_data = FailureRecord(Url, "Failed to extract text from HTML")
               ELSE /\ cur.response # NoResponse
                    /\ cur.profile_data =
                          ParseProfileResult(
                              Url, extract_structured_data(Url, cur.response, AllWritten))

\* C19: in every state of the UI session logged_in implies that a scraper exists
\* and that browser_opened holds; scraping starts only while logged_in; and a
\* logout has called quit() on the scraper's driver and left scraper = None,
\* logged_in = browser_opened = False, scraped_data = None and a scraper on which
\* a further close() does nothing.
SessionInvariant ==
    /\ logged_in => scraper # PyNone /\ browser_opened
    /\ ui_action = "scrape" => logged_in
    /\ ui_action = "logout" =>
          /\ scraper = PyNone /\ ~logged_in /\ ~browser_opened /\ scraped_data = PyNone
          /\ released # PyNone
          /\ released.driver = 0
          /\ Close(released) = [scraper |-> released, quit |-> 0]

\* a logout step calls quit() on the driver the session's scraper holds
LogoutQuitsDriver ==
    ui_action' = "logout" =>
        /\ scraper # PyNone
        /\ scraper.driver # 0
        /\ quits' = Append(quits, scraper.driver)
        /\ scraper.driver \in chrome_open

====
